---- MODULE Spec2Model ----
(***************************************************************************)
(* Model of PlanEnumerator (src/mongo/db/query/plan_enumerator.cpp): the   *)
(* memo build pass (prepMemo), the tagger (tagMemo), the compound          *)
(* completer (checkCompound) and the public operations init() / getNext(). *)
(*                                                                         *)
(* The predicate tree is a function from node handles 1..n (1 is the root) *)
(* to node records; index ids and memo ids are 0-based as in the source,   *)
(* while TLA+ sequences are 1-based, so element k of a C++ vector is       *)
(* element k+1 of the sequence that models it.  Field paths are strings    *)
(* and are concatenated exactly as the source concatenates them.           *)
(***************************************************************************)
EXTENDS Integers, Sequences, FiniteSets, TLC

VARIABLES
    tree,        \* the borrowed predicate tree: node -> [kind, path, children, rt]
    indices,     \* the borrowed catalog _indices: sequence of [keyPattern, multikey]
    tag,         \* the tag slot of every node of _root's tree
    memo,        \* _memo     : memo id -> NodeSolution
    nodeToId,    \* _nodeToId : node -> memo id
    curEnum,     \* _curEnum  : memo id -> current choice
    inOrderCount,\* _inOrderCount
    done,        \* _done
    pc,          \* position inside init() / between calls
    prepRet,     \* value returned by each prepMemo(node) call (history)
    tagged,      \* tag slots as the tagger left them (history)
    byTagger,    \* nodes whose IndexTag was installed by tagMemo (history)
    visited,     \* memo ids tagMemo was called on (history)
    trace,       \* the completer's diagnostic trace (history)
    rets,        \* values returned by the getNext calls so far (history)
    outTags      \* tag slots of the tree handed out by the last successful getNext

vars == <<tree, indices, tag, memo, nodeToId, curEnum, inOrderCount, done, pc,
          prepRet, tagged, byTagger, visited, trace, rets, outTags>>

(***************************************************************************)
(* Bounds of the explored inputs.                                          *)
(***************************************************************************)
MaxNodes == 4
MaxCalls == 2

(***************************************************************************)
(* Tag slot contents.                                                      *)
(***************************************************************************)
NoTag == [type |-> "none"]
RelevantTag(f, nf) == [type |-> "rel", first |-> f, notFirst |-> nf]
IndexTag(i, p) == [type |-> "idx", index |-> i, pos |-> p]

\* IndexTag::kNoIndex: a value that is no position in any vector.
kNoIndex == -1

Root == 1
Nodes == DOMAIN tree
Children(n) == tree[n].children
NumChildren(n) == Len(tree[n].children)

(***************************************************************************)
(* Node classifier (mongo/db/query/indexability.h, MatchExpression).       *)
(***************************************************************************)
arrayUsesIndexOnChildren(n) == tree[n].kind = "ELEM_MATCH_OBJECT"
nodeCanUseIndexOnOwnField(n) == tree[n].kind \in {"LEAF", "GEO_NEAR"}
isLogical(n) == tree[n].kind \in {"AND", "OR"}

isCompound(idx) == Len(indices[idx + 1].keyPattern) > 1

\* std::map::operator[] on _nodeToId: an absent key is inserted with value 0.
LookupId(map, n) ==
    IF n \in DOMAIN map THEN [map |-> map, id |-> map[n]]
    ELSE [map |-> map @@ (n :> 0), id |-> 0]

\* _memo[id]: NULL when the id has no NodeSolution.  (operator[] also inserts
\* the NULL; every read of _memo goes through this operator, so an inserted
\* NULL and an absent key read the same.)
NullSoln == [type |-> "null"]
MemoAt(m, id) == IF id \in DOMAIN m THEN m[id] ELSE NullSoln

Put(f, k, v) == [x \in (DOMAIN f) \cup {k} |-> IF x = k THEN v ELSE f[x]]

(***************************************************************************)
(* prepMemo.  The state threaded through the recursion is                  *)
(*   [memo, nodeToId, curEnum, count, tag, rets, ret]                      *)
(* where count is _inOrderCount, ret the value returned by the call just   *)
(* finished and rets the history of the values returned per node.          *)
(***************************************************************************)
RECURSIVE prepMemo(_, _)
RECURSIVE prepArrayLoop(_, _, _, _)
RECURSIVE prepOrLoop(_, _, _, _)
RECURSIVE prepAndLoop(_, _, _, _, _)
RECURSIVE orSubnodes(_, _, _, _)

\* Common tail: myID = _inOrderCount++; _nodeToId[node] = myID; _memo[..] = soln.
Register(st, n, soln, setCur) ==
    LET myID == st.count IN
    [st EXCEPT !.count = myID + 1,
               !.nodeToId = Put(st.nodeToId, n, myID),
               !.memo = Put(st.memo, myID, soln),
               !.curEnum = IF setCur THEN Put(st.curEnum, myID, 0) ELSE st.curEnum]

Return(st, n, v) == [st EXCEPT !.ret = v, !.rets = Put(st.rets, n, v)]

\* lines 247-253
prepArrayLoop(st, n, i, subnodes) ==
    IF i > NumChildren(n) THEN [st |-> st, subnodes |-> subnodes]
    ELSE LET child == Children(n)[i]
             s1 == prepMemo(st, child)
         IN IF s1.ret
            THEN LET lk == LookupId(s1.nodeToId, child)
                 IN prepArrayLoop([s1 EXCEPT !.nodeToId = lk.map], n, i + 1,
                                  Append(subnodes, <<lk.id>>))
            ELSE prepArrayLoop(s1, n, i + 1, subnodes)

\* variant: a disjunction starts out not indexed
OrIndexedAtStart_False == FALSE

\* line 290
OrIndexedAtStart == TRUE

\* lines 290-295
prepOrLoop(st, n, i, indexed) ==
    IF i > NumChildren(n) THEN [st |-> st, indexed |-> indexed]
    ELSE LET s1 == prepMemo(st, Children(n)[i])
         IN prepOrLoop(s1, n, i + 1, IF s1.ret THEN indexed ELSE FALSE)

\* lines 302-305
orSubnodes(map, n, i, subnodes) ==
    IF i > NumChildren(n) THEN [map |-> map, subnodes |-> subnodes]
    ELSE LET lk == LookupId(map, Children(n)[i])
         IN orSubnodes(lk.map, n, i + 1, Append(subnodes, lk.id))

\* lines 340-342 with the guards of lines 336 and 338
GeoNearAfter(st, childID, subnodes, geoNearChild) ==
    LET ns == MemoAt(st.memo, childID)
    IN IF ns.type = "pred" /\ tree[ns.expr].kind = "GEO_NEAR"
       THEN Len(subnodes) - 1
       ELSE geoNearChild

\* lines 325-346
prepAndLoop(st, n, i, subnodes, geoNearChild) ==
    IF i > NumChildren(n)
    THEN [st |-> st, subnodes |-> subnodes, geoNearChild |-> geoNearChild]
    ELSE LET child == Children(n)[i]
             s1 == prepMemo(st, child)
         IN IF s1.ret
            THEN LET lk == LookupId(s1.nodeToId, child)
                     s2 == [s1 EXCEPT !.nodeToId = lk.map]
                     sub2 == Append(subnodes, <<lk.id>>)
                 IN prepAndLoop(s2, n, i + 1, sub2,
                                GeoNearAfter(s2, lk.id, sub2, geoNearChild))
            ELSE prepAndLoop(s1, n, i + 1, subnodes, geoNearChild)

\* variant: the geo-nearest option is left where it was collected
SwapGeoNear_Never(subnodes, geoNearChild) == subnodes

\* lines 348-350
SwapGeoNear(subnodes, geoNearChild) ==
    IF kNoIndex # geoNearChild /\ 0 # geoNearChild
    THEN [k \in 1..Len(subnodes) |->
            IF k = 1 THEN subnodes[geoNearChild + 1]
            ELSE IF k = geoNearChild + 1 THEN subnodes[1]
            ELSE subnodes[k]]
    ELSE subnodes

\* lines 277-281: the relevance tag's lists are swapped into the fresh entry
PredicateSolution(st, n) ==
    IF st.tag[n].type = "rel"
    THEN [type |-> "pred", expr |-> n,
          first |-> st.tag[n].first, notFirst |-> st.tag[n].notFirst]
    ELSE [type |-> "pred", expr |-> n, first |-> <<>>, notFirst |-> <<>>]

TagAfterSwap(st, n) ==
    IF st.tag[n].type = "rel" THEN RelevantTag(<<>>, <<>>) ELSE st.tag[n]

prepMemo(st, n) ==
    IF arrayUsesIndexOnChildren(n)
    THEN LET r == prepArrayLoop(st, n, 1, <<>>)
             s1 == Register(r.st, n, [type |-> "and", subnodes |-> r.subnodes], TRUE)
         IN Return(s1, n, Len(r.subnodes) > 0)
    ELSE IF nodeCanUseIndexOnOwnField(n)
    THEN LET soln == PredicateSolution(st, n)
             s1 == Register([st EXCEPT !.tag[n] = TagAfterSwap(st, n)], n, soln, TRUE)
         IN Return(s1, n, Len(soln.first) > 0)
    ELSE IF isLogical(n)
    THEN IF tree[n].kind = "OR"
         THEN LET r == prepOrLoop(st, n, 1, OrIndexedAtStart)
                  s1 == Register(r.st, n, NullSoln, FALSE)
                  o == orSubnodes(s1.nodeToId, n, 1, <<>>)
                  s2 == [s1 EXCEPT !.nodeToId = o.map,
                                   !.memo[s1.nodeToId[n]] =
                                        [type |-> "or", subnodes |-> o.subnodes]]
              IN Return(s2, n, r.indexed)
         ELSE LET r == prepAndLoop(st, n, 1, <<>>, kNoIndex)
                  subnodes == SwapGeoNear(r.subnodes, r.geoNearChild)
                  s1 == Register(r.st, n, [type |-> "and", subnodes |-> subnodes], TRUE)
              IN Return(s1, n, Len(subnodes) > 0)
    ELSE Return(st, n, FALSE)

(***************************************************************************)
(* MatchExpression::resetTag: clears the tag slot of the node and of every *)
(* node below it.                                                          *)
(***************************************************************************)
RECURSIVE Descendants(_)
Descendants(n) ==
    {n} \cup UNION {Descendants(Children(n)[i]) : i \in 1..NumChildren(n)}

resetTag(t, n) == [x \in DOMAIN t |-> IF x \in Descendants(n) THEN NoTag ELSE t[x]]

(***************************************************************************)
(* tagMemo.  The state threaded through the recursion is                   *)
(*   [tag, byTagger, visited, ok]; ok turns FALSE when a verify() fails.   *)
(***************************************************************************)
RECURSIVE tagMemo(_, _)
RECURSIVE tagEach(_, _, _)

\* _curEnum[id]: std::map::operator[] reads 0 for an id never assigned
CurAt(id) == IF id \in DOMAIN curEnum THEN curEnum[id] ELSE 0

\* variant: the last member of first instead of the one under the cursor
TaggerTag_Last(soln, id) == IndexTag(soln.first[Len(soln.first)], 0)

\* line 380: new IndexTag(first[_curEnum[id]]), whose position defaults to 0
TaggerTag(soln, id) == IndexTag(soln.first[CurAt(id) + 1], 0)

\* variant: every option instead of the one under the cursor
CurOption_All(soln, id) == [k \in 1..Len(soln.subnodes) |-> soln.subnodes[k][1]]

\* line 393: the option selected by the cursor
CurOption(soln, id) == soln.subnodes[CurAt(id) + 1]

\* lines 373-381
tagPredicate(ts, id, soln) ==
    IF ts.tag[soln.expr] # NoTag THEN [ts EXCEPT !.ok = FALSE]
    ELSE IF 0 # Len(soln.first)
    THEN IF ~(CurAt(id) < Len(soln.first))
         THEN [ts EXCEPT !.ok = FALSE]
         ELSE [ts EXCEPT !.tag[soln.expr] = TaggerTag(soln, id),
                         !.byTagger = @ \cup {soln.expr}]
    ELSE ts

\* the loops of lines 384-386 and 395-398
tagEach(ts, ids, i) ==
    IF i > Len(ids) \/ ~ts.ok THEN ts
    ELSE tagEach(tagMemo(ts, ids[i]), ids, i + 1)

tagMemo(ts0, id) ==
    LET soln == MemoAt(memo, id)
        ts == [ts0 EXCEPT !.visited = @ \cup {id}]
    IN IF soln = NullSoln THEN [ts EXCEPT !.ok = FALSE]
       ELSE IF soln.type = "pred" THEN tagPredicate(ts, id, soln)
       ELSE IF soln.type = "or" THEN tagEach(ts, soln.subnodes, 1)
       ELSE IF ~(CurAt(id) < Len(soln.subnodes))
            THEN [ts EXCEPT !.ok = FALSE]
            ELSE tagEach(ts, CurOption(soln, id), 1)

(***************************************************************************)
(* checkCompound.  The state threaded through the recursion is             *)
(*   [tag, nodeToId, trace, ok].  trace records, per conjunction, the      *)
(* partition of step 1, every read of the multikey flag and every          *)
(* assignment ("compound-ing ... setting pos to ...").  garbage is the     *)
(* value an out-of-range read of _indices[i] yields.                    *)
(***************************************************************************)
RECURSIVE checkCompound(_, _, _, _)
RECURSIVE partition(_, _, _, _)
RECURSIVE pickUnassigned(_, _, _, _, _, _)
RECURSIVE fillColumns(_, _, _, _, _, _)
RECURSIVE completeEach(_, _, _, _, _, _, _)
RECURSIVE checkChildren(_, _, _, _, _)

\* lines 128-144
partition(cs, n, i, acc) ==
    IF i > NumChildren(n) \/ ~cs.ok THEN [cs |-> cs, acc |-> acc]
    ELSE LET child == Children(n)[i] IN
         IF nodeCanUseIndexOnOwnField(child)
         THEN LET lk == LookupId(cs.nodeToId, child)
                  c1 == [cs EXCEPT !.nodeToId = lk.map]
              IN IF MemoAt(memo, lk.id).type # "pred"
                 THEN [cs |-> [c1 EXCEPT !.ok = FALSE], acc |-> acc]
                 ELSE IF c1.tag[child] = NoTag
                 THEN partition(c1, n, i + 1,
                                [acc EXCEPT !.unassigned = Append(@, child)])
                 ELSE IF isCompound(c1.tag[child].index)
                 THEN partition(c1, n, i + 1,
                                [acc EXCEPT !.assignedCompound = Append(@, child)])
                 ELSE partition(c1, n, i + 1, acc)
         ELSE partition(cs, n, i + 1, acc)

\* line 166: the catalog entry whose multikey flag is read for assignedCompound[i]
MultikeySlot(i, childTag) == i

MultikeyAt(slot, garbage) ==
    IF slot < Len(indices) THEN indices[slot + 1].multikey ELSE garbage

\* line 183
PathMatches(prefix, u, fieldName) == prefix \o tree[u].path = fieldName

\* variant: membership in notFirst is not required
InNotFirst_Any(soln, index) == TRUE

\* line 197
InNotFirst(soln, index) == \E k \in 1..Len(soln.notFirst) : soln.notFirst[k] = index

\* lines 180-205: scan unassigned from j; the result's found is the node picked
pickUnassigned(cs, prefix, unassigned, j, index, fieldName) ==
    IF j > Len(unassigned) \/ ~cs.ok THEN [cs |-> cs, found |-> 0]
    ELSE LET u == unassigned[j] IN
         IF ~PathMatches(prefix, u, fieldName)
         THEN pickUnassigned(cs, prefix, unassigned, j + 1, index, fieldName)
         ELSE IF cs.tag[u] # NoTag
         THEN pickUnassigned(cs, prefix, unassigned, j + 1, index, fieldName)
         ELSE LET lk == LookupId(cs.nodeToId, u)
                  c1 == [cs EXCEPT !.nodeToId = lk.map]
                  soln == MemoAt(memo, lk.id)
              IN IF soln.type # "pred" \/ soln.expr # u
                 THEN [cs |-> [c1 EXCEPT !.ok = FALSE], found |-> 0]
                 ELSE IF InNotFirst(soln, index)
                 THEN [cs |-> c1, found |-> u]
                 ELSE pickUnassigned(c1, prefix, unassigned, j + 1, index, fieldName)

\* variant: later columns are tried after an unfilled one
StopAtGap_Never(assignedField) == FALSE

\* line 207-211: after a column for which nothing was picked, stop
StopAtGap(assignedField) == ~assignedField

\* lines 175-212: the key columns after the first, posInIdx counting from 1
fillColumns(cs, conj, prefix, index, unassigned, posInIdx) ==
    LET kp == indices[index + 1].keyPattern IN
    IF posInIdx >= Len(kp) \/ ~cs.ok THEN cs
    ELSE LET r == pickUnassigned(cs, prefix, unassigned, 1, index, kp[posInIdx + 1])
             assignedField == r.found # 0
             c1 == IF assignedField
                   THEN [r.cs EXCEPT
                           !.tag[r.found] = IndexTag(index, posInIdx),
                           !.trace = Append(@, [what |-> "assign", conj |-> conj,
                                                node |-> r.found, index |-> index,
                                                pos |-> posInIdx, prefix |-> prefix,
                                                was |-> r.cs.tag[r.found]])]
                   ELSE r.cs
         IN IF StopAtGap(assignedField) THEN c1
            ELSE fillColumns(c1, conj, prefix, index, unassigned, posInIdx + 1)

\* lines 155-213
completeEach(cs, conj, prefix, assignedCompound, unassigned, i, garbage) ==
    IF i >= Len(assignedCompound) \/ ~cs.ok THEN cs
    ELSE LET childTag == cs.tag[assignedCompound[i + 1]]
             slot == MultikeySlot(i, childTag)
             c1 == [cs EXCEPT !.trace = Append(@, [what |-> "multikey", conj |-> conj,
                                                   i |-> i, slot |-> slot,
                                                   index |-> childTag.index])]
         IN IF MultikeyAt(slot, garbage)
            THEN completeEach(c1, conj, prefix, assignedCompound, unassigned, i + 1, garbage)
            ELSE completeEach(fillColumns(c1, conj, prefix, childTag.index, unassigned, 1),
                              conj, prefix, assignedCompound, unassigned, i + 1, garbage)

\* lines 223-225
checkChildren(cs, prefix, n, i, garbage) ==
    IF i > NumChildren(n) \/ ~cs.ok THEN cs
    ELSE checkChildren(checkCompound(cs, prefix, Children(n)[i], garbage),
                       prefix, n, i + 1, garbage)

\* lines 216-220
PrefixBelow(prefix, n) ==
    IF arrayUsesIndexOnChildren(n) /\ tree[n].path # ""
    THEN prefix \o tree[n].path \o "."
    ELSE prefix

checkCompound(cs, prefix, n, garbage) ==
    LET c2 == IF tree[n].kind = "AND"
              THEN LET p == partition(cs, n, 1,
                                      [assignedCompound |-> <<>>, unassigned |-> <<>>])
                       c1 == [p.cs EXCEPT !.trace =
                                 Append(@, [what |-> "partition", conj |-> n,
                                            assignedCompound |-> p.acc.assignedCompound,
                                            unassigned |-> p.acc.unassigned])]
                   IN completeEach(c1, n, prefix, p.acc.assignedCompound,
                                   p.acc.unassigned, 0, garbage)
              ELSE cs
    IN checkChildren(c2, PrefixBelow(prefix, n), n, 1, garbage)

(***************************************************************************)
(* Inputs: predicate trees with relevance tags, and catalogs.              *)
(***************************************************************************)
RECURSIVE SortedSeq(_)
SortedSeq(S) ==
    IF S = {} THEN <<>>
    ELSE LET m == CHOOSE x \in S : \A y \in S : x <= y
         IN <<m>> \o SortedSeq(S \ {m})

RECURSIVE AncestorsOrSelf(_, _)
AncestorsOrSelf(p, i) == IF i = 1 THEN {1} ELSE {i} \cup AncestorsOrSelf(p, p[i])

\* Parent vectors of the ordered trees with n nodes, numbered in preorder.
Shapes(n) ==
    {p \in [2..n -> 1..n] : \A i \in 2..n : p[i] \in AncestorsOrSelf(p, i - 1)}

ChildSeq(p, n, k) == SortedSeq({i \in 2..n : p[i] = k})
Inner(p, n) == {k \in 1..n : \E i \in 2..n : p[i] = k}

Node(k, pth, ch, rt) == [kind |-> k, path |-> pth, children |-> ch, rt |-> rt]

\* A catalog entry: IndexEntry.keyPattern (its field names in order), IndexEntry.multikey
IndexEntry(kp, mk) == [keyPattern |-> kp, multikey |-> mk]

\* Dotted prefix of node k of the shape p whose inner nodes have attributes ia.
RECURSIVE ShapePrefix(_, _, _)
ShapePrefix(p, ia, k) ==
    IF k = 1 THEN ""
    ELSE LET m == p[k]
         IN ShapePrefix(p, ia, m) \o
            (IF ia[m][1] = "ELEM_MATCH_OBJECT" /\ ia[m][2] # ""
             THEN ia[m][2] \o "." ELSE "")

\* The relevance tag the index selection attaches to a leaf on the full path fp:
\* first lists, in catalog order, the indexes whose leading column is fp, notFirst
\* those with fp in a later column.  rating "all" keeps both lists, "firstOnly"
\* drops the non-leading uses, "none" leaves the leaf without a tag.
Rated(cat, fp, rating) ==
    LET first == SortedSeq({I \in 0..(Len(cat) - 1) : cat[I + 1].keyPattern[1] = fp})
        notFirst == SortedSeq({I \in 0..(Len(cat) - 1) :
                        \E k \in 2..Len(cat[I + 1].keyPattern) :
                            cat[I + 1].keyPattern[k] = fp})
    IN IF rating = "all" THEN RelevantTag(first, notFirst)
       ELSE IF rating = "firstOnly" THEN RelevantTag(first, <<>>)
       ELSE NoTag

\* Attributes of the nodes that have children: <<kind, path>>, and of those that
\* have none: <<kind, path, rating>>.
InnerAttrs == {<<"AND", "">>, <<"OR", "">>, <<"ELEM_MATCH_OBJECT", "x">>}

\* Build pass inputs: leaves, nodes of no indexable kind, empty logical nodes.
LeafAttrs ==
    {<<"LEAF", "a", "all">>, <<"LEAF", "b", "all">>, <<"OTHER", "", "none">>,
     <<"AND", "", "none">>, <<"OR", "", "none">>, <<"ELEM_MATCH_OBJECT", "x", "none">>}

Catalogs == {<<IndexEntry(<<"a", "b">>, FALSE)>>}

\* Tagger inputs: leaves over a and b and geo-nearest leaves over g.
TaggerLeafAttrs ==
    {<<"LEAF", "a", "all">>, <<"LEAF", "b", "all">>, <<"LEAF", "a", "none">>,
     <<"GEO_NEAR", "g", "all">>, <<"GEO_NEAR", "g", "none">>}

TaggerCatalogs ==
    {<<IndexEntry(<<"a">>, FALSE), IndexEntry(<<"a", "b">>, FALSE),
       IndexEntry(<<"g", "b">>, FALSE)>>,
     <<IndexEntry(<<"a", "b">>, FALSE), IndexEntry(<<"g">>, FALSE)>>,
     <<IndexEntry(<<"g">>, FALSE), IndexEntry(<<"b">>, TRUE)>>}

\* Completer inputs: conjunctions of leaves over a, b and c, possibly below an
\* element-match on x, against simple and compound, multikey and other indexes.
CompoundInnerAttrs == {<<"AND", "">>, <<"ELEM_MATCH_OBJECT", "x">>}

CompoundLeafAttrs ==
    {<<"LEAF", "a", "all">>, <<"LEAF", "b", "all">>, <<"LEAF", "c", "all">>,
     <<"LEAF", "b", "firstOnly">>}

CompoundCatalogs ==
    {<<IndexEntry(<<"a", "b">>, mk)>> : mk \in BOOLEAN}
    \cup {<<IndexEntry(<<"b">>, mk0), IndexEntry(<<"a", "b">>, mk1)>> :
            mk0 \in BOOLEAN, mk1 \in BOOLEAN}
    \cup {<<IndexEntry(<<"a", "c", "b">>, FALSE)>>,
          <<IndexEntry(<<"x.a", "x.b">>, FALSE)>>,
          <<IndexEntry(<<"a", "b">>, FALSE), IndexEntry(<<"a", "c">>, FALSE)>>}

TreeOf(n, p, ia, la, cat) ==
    [k \in 1..n |->
        IF k \in Inner(p, n)
        THEN Node(ia[k][1], ia[k][2], ChildSeq(p, n, k), NoTag)
        ELSE Node(la[k][1], la[k][2], <<>>,
                  IF la[k][1] \in {"LEAF", "GEO_NEAR"}
                  THEN Rated(cat, ShapePrefix(p, ia, k) \o la[k][2], la[k][3])
                  ELSE NoTag)]

\* The state after construction: the enumerator holds _root and _indices only.
\* _inOrderCount and _done are first assigned, and first read, by init().
Constructed(t, cat) ==
    /\ tree = t
    /\ indices = cat
    /\ tag = [k \in DOMAIN t |-> t[k].rt]
    /\ memo = <<>>
    /\ nodeToId = <<>>
    /\ curEnum = <<>>
    /\ inOrderCount = 0
    /\ done = FALSE
    /\ pc = "constructed"
    /\ prepRet = <<>>
    /\ tagged = <<>>
    /\ byTagger = {}
    /\ visited = {}
    /\ trace = <<>>
    /\ rets = <<>>
    /\ outTags = <<>>

\* Every tree of at most MaxNodes nodes over the given attributes, with each
\* of the given catalogs.
Inputs(inner, leaf, catalogs) ==
    \E n \in 1..MaxNodes :
      \E p \in Shapes(n) :
        \E ia \in [Inner(p, n) -> inner],
           la \in [(1..n) \ Inner(p, n) -> leaf],
           cat \in catalogs :
          Constructed(TreeOf(n, p, ia, la, cat), cat)

Init == Inputs(InnerAttrs, LeafAttrs, Catalogs)

InitTagger == Inputs(InnerAttrs, TaggerLeafAttrs, TaggerCatalogs)

InitCompound == Inputs(CompoundInnerAttrs, CompoundLeafAttrs, CompoundCatalogs)

(***************************************************************************)
(* init(), in the order of its statements, and getNext().                  *)
(***************************************************************************)
\* lines 36-42
InitPrepMemo ==
    /\ pc = "constructed"
    /\ LET st == prepMemo([memo |-> memo, nodeToId |-> nodeToId, curEnum |-> curEnum,
                           count |-> 0, tag |-> tag, rets |-> <<>>, ret |-> FALSE],
                          Root)
       IN /\ memo' = st.memo
          /\ nodeToId' = st.nodeToId
          /\ curEnum' = st.curEnum
          /\ inOrderCount' = st.count
          /\ tag' = st.tag
          /\ prepRet' = st.rets
          /\ done' = ~st.ret
    /\ pc' = "built"
    /\ UNCHANGED <<tree, indices, tagged, byTagger, visited, trace, rets, outTags>>

\* line 45, and the test of line 54
InitResetTag ==
    /\ pc = "built"
    /\ tag' = resetTag(tag, Root)
    /\ pc' = IF done THEN "ready" ELSE "cleared"
    /\ UNCHANGED <<tree, indices, memo, nodeToId, curEnum, inOrderCount, done,
                   prepRet, tagged, byTagger, visited, trace, rets, outTags>>

\* line 56
InitTagMemo ==
    /\ pc = "cleared"
    /\ LET lk == LookupId(nodeToId, Root)
           ts == tagMemo([tag |-> tag, byTagger |-> {}, visited |-> {}, ok |-> TRUE],
                         lk.id)
       IN /\ nodeToId' = lk.map
          /\ tag' = ts.tag
          /\ tagged' = ts.tag
          /\ byTagger' = ts.byTagger
          /\ visited' = ts.visited
          /\ pc' = IF ts.ok THEN "tagged" ELSE "aborted"
    /\ UNCHANGED <<tree, indices, memo, curEnum, inOrderCount, done, prepRet,
                   trace, rets, outTags>>

\* line 57
InitCheckCompound ==
    /\ pc = "tagged"
    /\ \E garbage \in BOOLEAN :
         LET cs == checkCompound([tag |-> tag, nodeToId |-> nodeToId,
                                  trace |-> <<>>, ok |-> TRUE], "", Root, garbage)
         IN /\ tag' = cs.tag
            /\ nodeToId' = cs.nodeToId
            /\ trace' = cs.trace
            /\ pc' = IF cs.ok THEN "ready" ELSE "aborted"
    /\ UNCHANGED <<tree, indices, memo, curEnum, inOrderCount, done, prepRet,
                   tagged, byTagger, visited, rets, outTags>>

\* variant: the enumerator is not marked exhausted
DoneAfterPlan_Never == FALSE

\* line 239
DoneAfterPlan == TRUE

\* lines 228-241.  The clone carries a copy of every tag of _root's tree;
\* tagForSort and sortUsingTags work on the clone only.
GetNext ==
    /\ pc = "ready"
    /\ Len(rets) < MaxCalls
    /\ IF done
       THEN /\ rets' = Append(rets, FALSE)
            /\ UNCHANGED <<tag, done, outTags>>
       ELSE /\ outTags' = tag
            /\ tag' = resetTag(tag, Root)
            /\ done' = DoneAfterPlan
            /\ rets' = Append(rets, TRUE)
    /\ UNCHANGED <<tree, indices, memo, nodeToId, curEnum, inOrderCount, pc,
                   prepRet, tagged, byTagger, visited, trace>>

Next ==
    \/ InitPrepMemo
    \/ InitResetTag
    \/ InitTagMemo
    \/ InitCheckCompound
    \/ GetNext

Spec == Init /\ [][Next]_vars

SpecTagger == InitTagger /\ [][Next]_vars

SpecCompound == InitCompound /\ [][Next]_vars

(***************************************************************************)
(* Vocabulary of the properties, read off the tree and the catalog.        *)
(***************************************************************************)
ParentOf(n) == CHOOSE m \in Nodes : \E i \in 1..NumChildren(m) : Children(m)[i] = n

\* Dotted prefix contributed by the array-scoped nodes that enclose n.
RECURSIVE EnclosingPrefix(_)
EnclosingPrefix(n) ==
    IF n = Root THEN ""
    ELSE LET m == ParentOf(n)
         IN EnclosingPrefix(m) \o
            (IF tree[m].kind = "ELEM_MATCH_OBJECT" /\ tree[m].path # ""
             THEN tree[m].path \o "." ELSE "")

QualifiedPath(n) == EnclosingPrefix(n) \o tree[n].path

ChildSet(n) == {Children(n)[i] : i \in 1..NumChildren(n)}
LeafChildren(n) == {c \in ChildSet(n) : tree[c].kind \in {"LEAF", "GEO_NEAR"}}
Conjunctions == {n \in Nodes : tree[n].kind = "AND"}
KeyPattern(I) == indices[I + 1].keyPattern
Members(seq) == {seq[k] : k \in 1..Len(seq)}

Built == pc # "constructed"
Tagged == tagged # <<>>
\* init() has returned after completing, and no plan was handed out yet
Completed == pc = "ready" /\ ~done /\ rets = <<>>

Entry(n) == memo[nodeToId[n]]

(***************************************************************************)
(* C1: after init(), the first getNext returns true iff prepMemo(root)     *)
(* returned true; every later getNext returns false; with a root that is   *)
(* not indexable every getNext returns false.                              *)
(***************************************************************************)
C1_FirstPlanOnly ==
    \A k \in 1..Len(rets) : rets[k] = (k = 1 /\ prepRet[Root])

C1_Witness == rets = <<TRUE, FALSE>>

(***************************************************************************)
(* C5: every leaf tagged by the tagger carries position 0 and the index    *)
(* first[cursor] of its own Predicate entry, the cursor being 0 and first  *)
(* being the relevance tag's first in its order; the tree handed out by    *)
(* getNext carries that tag.                                               *)
(***************************************************************************)
C5_TaggerTagsFirst ==
    Tagged =>
      \A n \in byTagger :
        /\ Entry(n).type = "pred"
        /\ Entry(n).expr = n
        /\ Entry(n).first = tree[n].rt.first
        /\ curEnum[nodeToId[n]] = 0
        /\ tagged[n] = IndexTag(tree[n].rt.first[1], 0)
        /\ (outTags # <<>> => outTags[n] = tagged[n])

C5_Witness ==
    /\ outTags # <<>>
    /\ \E n \in byTagger :
         /\ Len(tree[n].rt.first) = 2
         /\ tree[n].rt.first[1] # tree[n].rt.first[2]
         /\ outTags[n] = IndexTag(tree[n].rt.first[1], 0)

(***************************************************************************)
(* C8: a conjunction with an indexable geo-nearest child has a geo-nearest *)
(* Predicate as option 0, its options are the single-id options of its     *)
(* indexable children in some order, and the tagger, when it reaches the   *)
(* conjunction, tags that geo-nearest leaf at position 0.                  *)
(***************************************************************************)
IndexableChildren(n) == {c \in ChildSet(n) : prepRet[c]}

C8_GeoNearFirst ==
    Built =>
      \A n \in Conjunctions :
        (\E c \in IndexableChildren(n) : tree[c].kind = "GEO_NEAR") =>
          LET e == Entry(n)
              g == memo[e.subnodes[1][1]]
          IN /\ e.type = "and"
             /\ Len(e.subnodes[1]) = 1
             /\ g.type = "pred"
             /\ tree[g.expr].kind = "GEO_NEAR"
             /\ Len(e.subnodes) = Cardinality(IndexableChildren(n))
             /\ Members(e.subnodes) = {<<nodeToId[c]>> : c \in IndexableChildren(n)}
             /\ (Tagged /\ nodeToId[n] \in visited =>
                    tagged[g.expr] = IndexTag(g.first[1], 0))

C8_Witness ==
    /\ Tagged
    /\ \E n \in Conjunctions :
         /\ nodeToId[n] \in visited
         /\ NumChildren(n) >= 2
         /\ prepRet[Children(n)[1]]
         /\ tree[Children(n)[1]].kind = "LEAF"
         /\ \E c \in IndexableChildren(n) :
              tree[c].kind = "GEO_NEAR" /\ tagged[c].type = "idx"

(***************************************************************************)
(* C10: after the tagger every conjunction has at most one direct leaf     *)
(* child carrying an index tag; in the completer assignedCompound has at   *)
(* most one element, its loop counter is only ever 0, and the catalog      *)
(* entry read by the multikey check is entry 0, which exists.              *)
(***************************************************************************)
C10_OneAssignedChild ==
    /\ Tagged =>
         \A n \in Conjunctions :
           Cardinality({c \in LeafChildren(n) : tagged[c].type = "idx"}) <= 1
    /\ \A k \in 1..Len(trace) :
         /\ trace[k].what = "partition" => Len(trace[k].assignedCompound) <= 1
         /\ trace[k].what = "multikey" =>
              trace[k].i = 0 /\ trace[k].slot = 0 /\ trace[k].slot < Len(indices)

C10_Witness ==
    /\ \E k \in 1..Len(trace) : trace[k].what = "multikey"
    /\ \E n \in Conjunctions :
         /\ nodeToId[n] \in visited
         /\ Cardinality({c \in LeafChildren(n) : prepRet[c]}) >= 2

(***************************************************************************)
(* C6: a conjunction or a disjunction with zero children gets a memo entry *)
(* with zero options / zero subnodes and is reported not indexable; when   *)
(* it is the root every getNext returns false.                             *)
(***************************************************************************)
EmptyLogical(k) == {n \in Nodes : tree[n].kind = k /\ NumChildren(n) = 0}

C6_EmptyNotIndexable ==
    Built =>
      \A n \in EmptyLogical("AND") \cup EmptyLogical("OR") :
        /\ Len(Entry(n).subnodes) = 0
        /\ ~prepRet[n]
        /\ (n = Root => \A k \in 1..Len(rets) : ~rets[k])

(***************************************************************************)
(* C6 as amended: an empty conjunction gets zero options, is reported not  *)
(* indexable and, as the root, makes every getNext return false; an empty  *)
(* disjunction gets zero subnodes and is reported indexable, and as the    *)
(* root it makes the first getNext return true, with no leaf tagged, and   *)
(* every later one false.                                                  *)
(***************************************************************************)
C6_EmptyConjunctionOnly ==
    Built =>
      /\ \A n \in EmptyLogical("AND") :
           /\ Entry(n) = [type |-> "and", subnodes |-> <<>>]
           /\ ~prepRet[n]
           /\ (n = Root => \A k \in 1..Len(rets) : ~rets[k])
      /\ \A n \in EmptyLogical("OR") :
           /\ Entry(n) = [type |-> "or", subnodes |-> <<>>]
           /\ prepRet[n]
           /\ (n = Root =>
                 /\ \A k \in 1..Len(rets) : rets[k] = (k = 1)
                 /\ (outTags # <<>> => outTags[n] = NoTag))

C6_Witness ==
    /\ Built
    /\ tree[Root].kind = "OR"
    /\ \E a \in EmptyLogical("AND"), o \in EmptyLogical("OR") :
         {a, o} \subseteq ChildSet(Root) /\ ~prepRet[a] /\ prepRet[o]

(***************************************************************************)
(* C7: after the build pass every node reachable from the root has exactly *)
(* one memo id in [0, N), N the number of memo entries created; the id has *)
(* a memo entry, the ids are contiguous and no two nodes share one, also   *)
(* once the ids of a disjunction's children have been looked up.           *)
(***************************************************************************)
C7_EveryNodeOneId ==
    Built =>
      /\ DOMAIN memo = 0..(inOrderCount - 1)
      /\ \A n \in Nodes :
           /\ n \in DOMAIN nodeToId
           /\ nodeToId[n] \in 0..(inOrderCount - 1)
           /\ nodeToId[n] \in DOMAIN memo
      /\ \A n, m \in DOMAIN nodeToId : n # m => nodeToId[n] # nodeToId[m]

(***************************************************************************)
(* C2: when the tagger tagged a child of a conjunction with a compound     *)
(* index I whose multikey flag is set, the completer tags no sibling with  *)
(* I: siblings untagged before completion are untagged after it and I      *)
(* appears at position 0 only.                                             *)
(***************************************************************************)
C2_MultikeyNotCompleted ==
    Completed =>
      \A n \in Conjunctions : \A c \in LeafChildren(n) \cap byTagger :
        LET I == tagged[c].index IN
        (isCompound(I) /\ indices[I + 1].multikey) =>
          \A s \in ChildSet(n) \ {c} :
            /\ tagged[s] = NoTag => tag[s] = NoTag
            /\ tag[s] # NoTag => ~(tag[s].index = I /\ tag[s].pos # 0)

(***************************************************************************)
(* C9: when the tagger tagged a child of a conjunction with a compound     *)
(* index I that is not multikey, then for every key column of I from       *)
(* position 1 on whose earlier columns all had a candidate, the first      *)
(* child in child order that is indexable on its own field, untagged, on   *)
(* the column's qualified path and lists I in its notFirst is tagged with  *)
(* I at the column's position.                                             *)
(***************************************************************************)
Candidates(n, I, P) ==
    {i \in 1..NumChildren(n) :
        LET c == Children(n)[i] IN
        /\ c \in LeafChildren(n)
        /\ tagged[c] = NoTag
        /\ QualifiedPath(c) = KeyPattern(I)[P + 1]
        /\ I \in Members(Entry(c).notFirst)}

FirstCandidate(n, I, P) ==
    Children(n)[CHOOSE i \in Candidates(n, I, P) : \A j \in Candidates(n, I, P) : i <= j]

C9_NonMultikeyCompleted ==
    Completed =>
      \A n \in Conjunctions : \A c \in LeafChildren(n) \cap byTagger :
        LET I == tagged[c].index IN
        (isCompound(I) /\ ~indices[I + 1].multikey) =>
          \A P \in 1..(Len(KeyPattern(I)) - 1) :
            (\A Q \in 1..P : Candidates(n, I, Q) # {}) =>
              tag[FirstCandidate(n, I, P)] = IndexTag(I, P)

(***************************************************************************)
(* C3: after tagging and completion, the positions carried by the direct   *)
(* leaf children of a conjunction that are tagged with a compound index I  *)
(* are exactly 0..k for some k, each carried by one child.                 *)
(***************************************************************************)
TaggedWith(n, I) == {c \in LeafChildren(n) : tag[c].type = "idx" /\ tag[c].index = I}

C3_ContiguousPositions ==
    Completed =>
      \A n \in Conjunctions : \A I \in 0..(Len(indices) - 1) :
        (isCompound(I) /\ TaggedWith(n, I) # {}) =>
          \E k \in 0..(Len(KeyPattern(I)) - 1) :
            /\ {tag[c].pos : c \in TaggedWith(n, I)} = 0..k
            /\ Cardinality(TaggedWith(n, I)) = k + 1

C3_Witness ==
    /\ Completed
    /\ \E n \in Conjunctions : \E I \in 0..(Len(indices) - 1) :
         /\ Len(KeyPattern(I)) = 3
         /\ {tag[c].pos : c \in TaggedWith(n, I)} = {0}
         /\ ~indices[1].multikey
         /\ \E c \in LeafChildren(n) :
              /\ tag[c] = NoTag
              /\ I \in Members(Entry(c).notFirst)
              /\ QualifiedPath(c) = KeyPattern(I)[3]

(***************************************************************************)
(* C4: every leaf the completer tags with IndexTag{I, P} has P > 0, was    *)
(* untagged when chosen, has I in the notFirst of its own Predicate entry  *)
(* and has a qualified path equal to the field name of column P of I.      *)
(***************************************************************************)
C4_CompleterAssignments ==
    \A k \in 1..Len(trace) :
      trace[k].what = "assign" =>
        LET n == trace[k].node
            I == trace[k].index
            P == trace[k].pos
        IN /\ P > 0
           /\ trace[k].was = NoTag
           /\ Entry(n).type = "pred"
           /\ Entry(n).expr = n
           /\ I \in Members(Entry(n).notFirst)
           /\ P < Len(KeyPattern(I))
           /\ QualifiedPath(n) = KeyPattern(I)[P + 1]
           /\ (Completed => tag[n] = IndexTag(I, P))

C4_Witness ==
    /\ Completed
    /\ \E k \in 1..Len(trace) :
         /\ trace[k].what = "assign"
         /\ EnclosingPrefix(trace[k].node) = "x."
         /\ tag[trace[k].node] = IndexTag(trace[k].index, trace[k].pos)

(***************************************************************************)
(* No verify() of init() fails on these inputs.                            *)
(***************************************************************************)
NeverAborted == pc # "aborted"

====
